---- MODULE Spec2Model ----
(***************************************************************************)
(* A model of KerasDDPG (src/tf_rl/controller/keras_ddpg.py): the replay   *)
(* buffer, the exploration counter and noise, the live and target          *)
(* parameters of the actor and the critic, and the training step.          *)
(*                                                                         *)
(* Numbers are exact rationals <<n, d>> with d > 0 in lowest terms.  The   *)
(* networks (tf_rl.models.KERASMLP, not part of the source at hand) are    *)
(* linear with two parameters each:                                        *)
(*     actor  <<w, b>>   :  a = w*s + b                                    *)
(*     critic <<cs, ca>> :  q = cs*s + ca*a                                *)
(* observation_size = action_size = 1.                                     *)
(***************************************************************************)
EXTENDS Integers, Sequences, FiniteSets, TLC

VARIABLES
    max_experience,             \* self.max_experience
    minibatch_size,             \* self.minibatch_size
    exploration_period,         \* self.exploration_period
    target_actor_update_rate,   \* self.target_actor_lr
    target_critic_update_rate,  \* self.target_critic_lr
    experience,                 \* self.experience (deque), oldest first
    actions_executed_so_far,    \* self.actions_executed_so_far
    training_steps,             \* self.training_steps
    bellman_error,              \* self.bellman_error
    noise_mean,                 \* self.noise_mean
    noise_variance,             \* self.noise_variance
    actor,                      \* trainable weights of self.actor
    critic,                     \* trainable weights of self.critic
    target_actor,               \* trainable weights of self.target_actor
    target_critic,              \* trainable weights of self.target_critic
    ret,                        \* what the most recent call did and returned
    stored,                     \* history: every transition passed to store
    soft_trace                  \* history: target values and count of the
                                \* stand-alone target updater calls

vars == <<max_experience, minibatch_size, exploration_period,
          target_actor_update_rate, target_critic_update_rate, experience,
          actions_executed_so_far, training_steps, bellman_error, noise_mean,
          noise_variance, actor, critic, target_actor, target_critic, ret,
          stored, soft_trace>>

config == <<max_experience, minibatch_size, exploration_period,
            target_actor_update_rate, target_critic_update_rate>>

params == <<actor, critic, target_actor, target_critic>>

-----------------------------------------------------------------------------
(* Bounds of the model. *)

MaxCalls == 6
MaxTrain == 2
MaxSoft == 3

-----------------------------------------------------------------------------
(* Exact rational arithmetic, standing for the float arithmetic of the code. *)

Abs(n) == IF n < 0 THEN -n ELSE n

RECURSIVE GCD(_, _)
GCD(a, b) == IF b = 0 THEN a ELSE GCD(b, a % b)

Q(n, d) == LET g == GCD(Abs(n), d) IN <<n \div g, d \div g>>

R(n) == <<n, 1>>

Zero == R(0)
One == R(1)
MinusOne == R(-1)

RAdd(x, y) ==
    LET l == (x[2] \div GCD(x[2], y[2])) * y[2]
    IN  Q(x[1] * (l \div x[2]) + y[1] * (l \div y[2]), l)

RNeg(x) == <<-x[1], x[2]>>

RSub(x, y) == RAdd(x, RNeg(y))

RMul(x, y) ==
    LET g1 == GCD(Abs(x[1]), y[2])
        g2 == GCD(Abs(y[1]), x[2])
    IN  <<(x[1] \div g1) * (y[1] \div g2), (x[2] \div g2) * (y[2] \div g1)>>

RLe(x, y) == x[1] * y[2] <= y[1] * x[2]

RAbs(x) == <<Abs(x[1]), x[2]>>

RECURSIVE RPow(_, _)
RPow(x, k) == IF k = 0 THEN One ELSE RMul(x, RPow(x, k - 1))

RECURSIVE RSum(_)
RSum(s) == IF s = <<>> THEN Zero ELSE RAdd(Head(s), RSum(Tail(s)))

\* np.clip(x, -1., 1.) and tf.clip_by_value(x, -1.0, 1.0) on one element
RClip(x) == IF RLe(x, MinusOne) THEN MinusOne
            ELSE IF RLe(One, x) THEN One ELSE x

-----------------------------------------------------------------------------
(* Constants of the controller. *)

discount_rate == Q(99, 100)
learning_rate == Q(1, 1000)

-----------------------------------------------------------------------------
(* The networks: forward evaluation. *)

ActorOut(p, s) == RAdd(RMul(p[1], s), p[2])

CriticOut(p, s, a) == RAdd(RMul(p[1], s), RMul(p[2], a))

\* K.gradients of the critic's output with respect to the action part of its
\* input (the last column of c_grads), for one input row
CriticActionGrad(p, s, a) == p[2]

\* K.gradients of the actor's output with respect to its weights <<w, b>>,
\* for one input row
ActorWeightGrad(p, s) == <<s, One>>

\* critic.model.fit on one batch: one optimizer step and the loss it reports.
\* The optimizer is outside the source at hand: any of these outcomes.
FitOutcomes == {[step |-> <<Q(-1, 2), Q(-1, 4)>>, loss |-> Q(1, 4)],
                [step |-> <<Q(1, 4), Q(1, 4)>>, loss |-> R(2)]}

Fit(p, xs, ys) ==
    {[critic |-> <<RAdd(p[1], o.step[1]), RAdd(p[2], o.step[2])>>,
      loss |-> o.loss] : o \in FitOutcomes}

-----------------------------------------------------------------------------
(* Inputs of the calls. *)

Capacities == {1, 3}
BatchSizes == 1..2
Periods == {1, 3}

\* (observation, action, reward, newobservation)
Transitions == {<<R(1), R(1), R(1), R(-1)>>, <<R(-1), Zero, Zero, R(1)>>}

Observations == {R(1), Q(1, 4)}

Dts == {0, 1}

\* what np.random.normal may draw when its scale is not zero
NoiseSamples == {R(-3), Q(1, 4)}

-----------------------------------------------------------------------------
(* store *)

\* calls made so far that changed the controller
Calls == Len(stored) + actions_executed_so_far + training_steps

EvictedOffByOne(buf) ==
    IF Len(buf) > max_experience + 1 THEN Tail(buf) ELSE buf

EvictedNewest(buf) ==
    IF Len(buf) > max_experience THEN SubSeq(buf, 1, Len(buf) - 1) ELSE buf

\* if len(self.experience) > self.max_experience: self.experience.popleft()
Evicted(buf) == IF Len(buf) > max_experience THEN Tail(buf) ELSE buf

NoRet == [call |-> "none", raised |-> FALSE, noisy |-> FALSE, obs |-> Zero,
          action |-> Zero, skipped |-> FALSE, announced |-> 0,
          samples |-> <<>>, target_y |-> <<>>, plot |-> "none"]

store ==
    /\ Calls < MaxCalls
    /\ \E t \in Transitions :
          /\ experience' = Evicted(Append(experience, t))
          /\ stored' = Append(stored, t)
    /\ ret' = [NoRet EXCEPT !.call = "store"]
    /\ UNCHANGED <<config, actions_executed_so_far, training_steps,
                   bellman_error, noise_mean, noise_variance, params,
                   soft_trace>>

-----------------------------------------------------------------------------
(* action *)

\* self.ou_sigma*self.ou_sigma/self.ou_theta * (1 - np.exp(-2*self.ou_theta*dt))
\* with ou_theta = 0.15 and ou_sigma = 0.2, to three decimals: 0 at dt = 0,
\* 0.2667 * (1 - exp(-0.3)) = 0.069 at dt = 1
NoiseVarianceOf(dt) == IF dt = 0 THEN Zero ELSE Q(69, 1000)

\* np.random.normal(mean, scale): the mean when the scale is 0
NoiseDraws(mean, scale) == IF scale = Zero THEN {mean} ELSE NoiseSamples

ExploringStale(before) == exploration_period > before

\* self.actions_executed_so_far += 1
\* if self.exploration_period > self.actions_executed_so_far:
Exploring(before) == exploration_period > before + 1

ReturnedActionClipAlways(a, explore, noise) ==
    IF explore THEN RClip(RAdd(a, noise)) ELSE RClip(a)

ReturnedActionNoClip(a, explore, noise) ==
    IF explore THEN RAdd(a, noise) ELSE a

\* action += np.random.normal(...); action = np.clip(action, -1., 1.)
ReturnedAction(a, explore, noise) ==
    IF explore THEN RClip(RAdd(a, noise)) ELSE a

action ==
    /\ Calls < MaxCalls
    /\ \E observation \in Observations, dt \in Dts :
          LET a == ActorOut(actor, observation)
              explore == Exploring(actions_executed_so_far)
              variance == NoiseVarianceOf(dt)
          IN  /\ actions_executed_so_far' = actions_executed_so_far + 1
              /\ noise_mean' = IF explore THEN Zero ELSE noise_mean
              /\ noise_variance' = IF explore THEN variance ELSE noise_variance
              /\ \E noise \in (IF explore THEN NoiseDraws(Zero, variance)
                                          ELSE {Zero}) :
                    ret' = [NoRet EXCEPT !.call = "action",
                                         !.noisy = explore,
                                         !.obs = observation,
                                         !.action =
                                             ReturnedAction(a, explore, noise)]
    /\ UNCHANGED <<config, experience, training_steps, bellman_error, params,
                   stored, soft_trace>>

-----------------------------------------------------------------------------
(* The target updates and the policy update. *)

\* new_p = self.target_critic_lr * p + (1 - self.target_critic_lr) * tp
get_target_critic_updates(tp, p) ==
    [i \in 1..(IF Len(tp) < Len(p) THEN Len(tp) ELSE Len(p)) |->
        RAdd(RMul(target_critic_update_rate, p[i]),
             RMul(RSub(One, target_critic_update_rate), tp[i]))]

get_target_actor_updates_swapped(tp, p) ==
    [i \in 1..(IF Len(tp) < Len(p) THEN Len(tp) ELSE Len(p)) |->
        RAdd(RMul(RSub(One, target_actor_update_rate), p[i]),
             RMul(target_actor_update_rate, tp[i]))]

\* new_p = self.target_actor_lr * p + (1 - self.target_actor_lr) * tp
get_target_actor_updates(tp, p) ==
    [i \in 1..(IF Len(tp) < Len(p) THEN Len(tp) ELSE Len(p)) |->
        RAdd(RMul(target_actor_update_rate, p[i]),
             RMul(RSub(One, target_actor_update_rate), tp[i]))]

\* p_grads: for each actor weight, the gradient of the actor's output seeded
\* with the critic's action gradient, summed over the batch, over minibatch
policy_gradients(crit, act, critic_xs, actor_xs) ==
    LET seed(b) == CriticActionGrad(crit, critic_xs[b][1], critic_xs[b][2])
    IN  [i \in 1..Len(act) |->
            RMul(RSum([b \in 1..Len(actor_xs) |->
                          RMul(ActorWeightGrad(act, actor_xs[b])[i], seed(b))]),
                 Q(1, minibatch_size))]

\* new_p = p + self.policy_learning_rate * tf.clip_by_value(g, -1.0, 1.0)
get_policy_updates(crit, act, critic_xs, actor_xs) ==
    LET g == policy_gradients(crit, act, critic_xs, actor_xs)
    IN  [i \in 1..Len(act) |-> RAdd(act[i], RMul(learning_rate, RClip(g[i])))]

-----------------------------------------------------------------------------
(* training_step *)

InsufficientExperienceNone(n) == n = 0

\* if len(self.experience) < 1*self.minibatch_size: return
InsufficientExperience(n) == n < 1 * minibatch_size

\* random.sample(range(len(self.experience)), self.minibatch_size): distinct
\* positions in any order; no choice (ValueError) when there are too few
SampleChoices ==
    IF minibatch_size > Len(experience) THEN {}
    ELSE {c \in [1..minibatch_size -> 1..Len(experience)] :
             \A i, j \in 1..minibatch_size : c[i] = c[j] => i = j}

BellmanTargetLive(samples) ==
    [b \in 1..Len(samples) |->
        RAdd(samples[b][3],
             RMul(discount_rate,
                  CriticOut(critic, samples[b][4],
                            ActorOut(actor, samples[b][4]))))]

\* target_actions[i] = self.target_action(state)
\* target_y = rewards + self.discount_rate * self.target_critic(...)
BellmanTarget(samples) ==
    [b \in 1..Len(samples) |->
        RAdd(samples[b][3],
             RMul(discount_rate,
                  CriticOut(target_critic, samples[b][4],
                            ActorOut(target_actor, samples[b][4]))))]

PolicyUpdatedStale(fitted, samples) ==
    LET states == [b \in 1..Len(samples) |-> samples[b][1]]
        critic_xs == [b \in 1..Len(samples) |->
                         <<states[b], ActorOut(actor, states[b])>>]
    IN  get_policy_updates(critic, actor, critic_xs, states)

\* policy_actions[i] = self.actor(state); self.policy_updater([critic_xs,
\* actor_xs]), the critic being the one critic.model.fit has just updated
PolicyUpdated(fitted, samples) ==
    LET states == [b \in 1..Len(samples) |-> samples[b][1]]
        critic_xs == [b \in 1..Len(samples) |->
                         <<states[b], ActorOut(actor, states[b])>>]
    IN  get_policy_updates(fitted, actor, critic_xs, states)

TargetsUpdatedBeforeLive(fitted, policy) ==
    [critic |-> get_target_critic_updates(target_critic, critic),
     actor |-> get_target_actor_updates(target_actor, actor)]

TargetsUpdatedHardCopy(fitted, policy) ==
    [critic |-> fitted, actor |-> policy]

\* self.target_critic_updater([]); self.target_actor_updater([])
TargetsUpdated(fitted, policy) ==
    [critic |-> get_target_critic_updates(target_critic, fitted),
     actor |-> get_target_actor_updates(target_actor, policy)]

training_step ==
    /\ Calls < MaxCalls
    /\ training_steps < MaxTrain
    /\ IF InsufficientExperience(Len(experience))
       THEN /\ ret' = [NoRet EXCEPT !.call = "training_step", !.skipped = TRUE]
            /\ UNCHANGED <<training_steps, bellman_error, params>>
       ELSE IF SampleChoices = {}
       THEN \* random.sample raised ValueError, after the increment
            /\ training_steps' = training_steps + 1
            /\ ret' = [NoRet EXCEPT !.call = "training_step", !.raised = TRUE,
                                    !.announced = training_steps + 1]
            /\ UNCHANGED <<bellman_error, params>>
       ELSE \E c \in SampleChoices :
               LET samples == [b \in 1..minibatch_size |-> experience[c[b]]]
                   target_y == BellmanTarget(samples)
                   xs == [b \in 1..minibatch_size |->
                             <<samples[b][1], samples[b][2]>>]
               IN  \E history \in Fit(critic, xs, target_y) :
                      LET policy == PolicyUpdated(history.critic, samples)
                          targets == TargetsUpdated(history.critic, policy)
                      IN  /\ training_steps' = training_steps + 1
                          /\ bellman_error' = Append(bellman_error, history.loss)
                          /\ critic' = history.critic
                          /\ actor' = policy
                          /\ target_critic' = targets.critic
                          /\ target_actor' = targets.actor
                          /\ \E plot \in (IF (training_steps + 1) % 100 = 1
                                          THEN {"ok", "failed"} ELSE {"none"}) :
                                ret' = [NoRet EXCEPT
                                           !.call = "training_step",
                                           !.announced = training_steps + 1,
                                           !.samples = samples,
                                           !.target_y = target_y,
                                           !.plot = plot,
                                           !.raised = (plot = "failed")]
    /\ UNCHANGED <<config, experience, actions_executed_so_far, noise_mean,
                   noise_variance, stored, soft_trace>>

-----------------------------------------------------------------------------
(* The controller: construction and the calls of its environment loop. *)

ActorRate == Q(1, 2)
CriticRate == Q(1, 10)

InitialActor == <<R(2), Q(1, 2)>>
InitialCritic == <<One, Q(1, 2)>>

\* self.target_actor = self.actor.copy(): an independent, equal parameter set
copy(p) == p

Init ==
    /\ max_experience \in Capacities
    /\ minibatch_size \in BatchSizes
    /\ exploration_period \in Periods
    /\ target_actor_update_rate = ActorRate
    /\ target_critic_update_rate = CriticRate
    /\ experience = <<>>
    /\ actions_executed_so_far = 0
    /\ training_steps = 0
    /\ bellman_error = <<>>
    /\ noise_mean = Zero
    /\ noise_variance = Zero
    /\ actor = InitialActor
    /\ critic = InitialCritic
    /\ target_actor = copy(actor)
    /\ target_critic = copy(critic)
    /\ ret = NoRet
    /\ stored = <<>>
    /\ soft_trace = [ka |-> 0, kc |-> 0, actor0 |-> target_actor,
                     critic0 |-> target_critic]

Next == store \/ action \/ training_step

Spec == Init /\ [][Next]_vars

-----------------------------------------------------------------------------
(* The target updaters on their own: self.target_critic_updater([]) and    *)
(* self.target_actor_updater([]) called repeatedly on arbitrary live and   *)
(* target parameters, the live ones held fixed.                            *)

SoftRates == {Q(1, 10), Q(1, 100), Q(1, 2), One}
SoftLive == {<<R(5), R(-1)>>, <<One, R(2)>>}
SoftTarget == {<<Zero, Zero>>, <<R(2), R(-2)>>}

InitSoft ==
    /\ max_experience \in {3}
    /\ minibatch_size \in {2}
    /\ exploration_period \in {1}
    /\ target_actor_update_rate \in SoftRates
    /\ target_critic_update_rate \in SoftRates
    /\ experience = <<>>
    /\ actions_executed_so_far = 0
    /\ training_steps = 0
    /\ bellman_error = <<>>
    /\ noise_mean = Zero
    /\ noise_variance = Zero
    /\ actor \in SoftLive
    /\ critic \in SoftLive
    /\ target_actor \in SoftTarget
    /\ target_critic \in SoftTarget
    /\ ret = NoRet
    /\ stored = <<>>
    /\ soft_trace = [ka |-> 0, kc |-> 0, actor0 |-> target_actor,
                     critic0 |-> target_critic]

target_critic_updater ==
    /\ soft_trace.kc < MaxSoft
    /\ target_critic' = get_target_critic_updates(target_critic, critic)
    /\ soft_trace' = [soft_trace EXCEPT !.kc = @ + 1]
    /\ ret' = [NoRet EXCEPT !.call = "target_critic_updater"]
    /\ UNCHANGED <<config, experience, actions_executed_so_far, training_steps,
                   bellman_error, noise_mean, noise_variance, actor, critic,
                   target_actor, stored>>

target_actor_updater ==
    /\ soft_trace.ka < MaxSoft
    /\ target_actor' = get_target_actor_updates(target_actor, actor)
    /\ soft_trace' = [soft_trace EXCEPT !.ka = @ + 1]
    /\ ret' = [NoRet EXCEPT !.call = "target_actor_updater"]
    /\ UNCHANGED <<config, experience, actions_executed_so_far, training_steps,
                   bellman_error, noise_mean, noise_variance, actor, critic,
                   target_critic, stored>>

NextSoft == target_critic_updater \/ target_actor_updater

SpecSoft == InitSoft /\ [][NextSoft]_vars

-----------------------------------------------------------------------------
(* Properties. *)

Min(a, b) == IF a < b THEN a ELSE b

\* the last n elements of a sequence
LastN(seq, n) == SubSeq(seq, Len(seq) - n + 1, Len(seq))

\* rate*p + (1-rate)*t for every parameter pair (t, p)
Blend(rate, p, t) ==
    [i \in 1..Len(t) |-> RAdd(RMul(rate, p[i]), RMul(RSub(One, rate), t[i]))]

InRange(x) == RLe(MinusOne, x) /\ RLe(x, One)

\* C1: the replay buffer never holds more than max_experience transitions,
\* whatever the calls made so far.
C1_BufferBounded == Len(experience) <= max_experience

C1_Witness ==
    /\ Len(stored) > max_experience
    /\ Len(experience) = max_experience
    /\ training_steps > 0
    /\ actions_executed_so_far > 0

C3_TrainingNoOp ==
    [][(ret'.call = "training_step" /\ Len(experience) < minibatch_size)
          => /\ ret'.skipped
             /\ ~ret'.raised
             /\ UNCHANGED <<training_steps, bellman_error, params,
                            experience>>]_vars

C3_Witness ==
    /\ ret.call = "training_step"
    /\ ret.skipped
    /\ minibatch_size = 2
    /\ Len(experience) = 1

\* C4: the targets start as exact copies of the live parameters; action and
\* store change no parameter; a training_step that runs replaces each target
\* by one blend of the step's live parameters into it, and nothing else.
C4_TargetsOnlySoftUpdated ==
    /\ target_actor = actor /\ target_critic = critic
    /\ [][/\ ret'.call \in {"action", "store"} => UNCHANGED params
          /\ training_steps' # training_steps
                => /\ target_critic' =
                          Blend(target_critic_update_rate, critic',
                                target_critic)
                   /\ target_actor' =
                          Blend(target_actor_update_rate, actor',
                                target_actor)]_vars

C4_Witness ==
    /\ training_steps = 2
    /\ ret.call = "action"
    /\ target_actor # actor
    /\ target_critic # critic

\* C5: when rendering the diagnostics fails, the training_step still returns
\* normally and its critic, actor and target updates stay applied.
C5_PlotFailureContained ==
    [][ret'.plot = "failed"
          => /\ ~ret'.raised
             /\ training_steps' = training_steps + 1
             /\ Len(bellman_error') = Len(bellman_error) + 1
             /\ target_critic' =
                    Blend(target_critic_update_rate, critic', target_critic)
             /\ target_actor' =
                    Blend(target_actor_update_rate, actor', target_actor)]_vars

\* the part of C5 the code keeps: the updates of a step whose diagnostics
\* failed stay applied
C5_UpdatesStayApplied ==
    [][ret'.plot = "failed"
          => /\ training_steps' = training_steps + 1
             /\ Len(bellman_error') = Len(bellman_error) + 1
             /\ target_critic' =
                    Blend(target_critic_update_rate, critic', target_critic)
             /\ target_actor' =
                    Blend(target_actor_update_rate, actor', target_actor)]_vars

\* C6 as stated: action adds noise exactly when the counter, as it stands
\* when action is called, is below exploration_period, and the counter goes
\* up by one on every call.
C6_NoiseIffBelowPeriodAtCall ==
    [][ret'.call = "action"
          => /\ ret'.noisy <=> actions_executed_so_far < exploration_period
             /\ actions_executed_so_far' = actions_executed_so_far + 1]_vars

\* C6 as amended: action adds noise exactly when the counter, after this
\* call's increment, is below exploration_period; the counter goes up by one
\* on every call.
C6_NoiseIffBelowPeriodAfterIncrement ==
    [][ret'.call = "action"
          => /\ ret'.noisy <=>
                    actions_executed_so_far + 1 < exploration_period
             /\ actions_executed_so_far' = actions_executed_so_far + 1]_vars

C6_Witness ==
    /\ ret.call = "action"
    /\ ret.noisy
    /\ exploration_period = 3
    /\ actions_executed_so_far = 2

\* C7: an action call made with the counter at or past exploration_period
\* returns the live actor's output as it is, no noise and no clipping; the
\* counter never goes down.
C7_RawActionAfterPeriod ==
    [][/\ (ret'.call = "action"
              /\ actions_executed_so_far >= exploration_period)
             => /\ ~ret'.noisy
                /\ ret'.action = ActorOut(actor, ret'.obs)
       /\ actions_executed_so_far' >= actions_executed_so_far]_vars

C7_Witness ==
    /\ ret.call = "action"
    /\ actions_executed_so_far > exploration_period
    /\ ~ret.noisy
    /\ ~InRange(ret.action)

\* C8: an action returned with exploration noise added lies in [-1, 1].
C8_NoisyActionInRange ==
    (ret.call = "action" /\ ret.noisy) => InRange(ret.action)

C8_Witness ==
    /\ ret.call = "action"
    /\ ret.noisy
    /\ noise_variance # Zero
    /\ ret.action = MinusOne
    /\ RLe(One, ActorOut(actor, ret.obs))

\* |t - p| = |t0 - p| * (1-rate)^k for every parameter pair
Geometric(target, live, target0, rate, k) ==
    \A i \in 1..Len(target) :
        RAbs(RSub(target[i], live[i])) =
            RMul(RAbs(RSub(target0[i], live[i])), RPow(RSub(One, rate), k))

\* C9: one target update replaces every target parameter t by
\* rate*p + (1-rate)*t, so after k updates with the live parameter p fixed
\* |t - p| = |t0 - p| * (1-rate)^k, for the actor with its rate and for the
\* critic with its rate.
C9_SoftUpdateGeometric ==
    [][/\ ret'.call = "target_actor_updater"
             => target_actor' =
                    Blend(target_actor_update_rate, actor, target_actor)
       /\ ret'.call = "target_critic_updater"
             => target_critic' =
                    Blend(target_critic_update_rate, critic, target_critic)
       /\ Geometric(target_actor', actor', soft_trace'.actor0,
                    target_actor_update_rate', soft_trace'.ka)
       /\ Geometric(target_critic', critic', soft_trace'.critic0,
                    target_critic_update_rate', soft_trace'.kc)]_vars

C9_Witness ==
    /\ target_actor_update_rate = Q(1, 10)
    /\ actor[1] = R(5)
    /\ soft_trace.actor0[1] = Zero
    /\ soft_trace.ka = 1
    /\ target_actor[1] = Q(1, 2)
    /\ soft_trace.kc = MaxSoft

\* C10: a training_step that runs increments training_steps, computes the
\* Bellman targets from the target parameters as they stood before the step,
\* fits the critic and appends one loss, updates the actor through the
\* critic just fitted, and then blends the step's live parameters into the
\* targets.
C10_TrainingStepOrder ==
    [][training_steps' # training_steps
          => LET samples == ret'.samples
                 states == [b \in 1..Len(samples) |-> samples[b][1]]
                 critic_xs == [b \in 1..Len(samples) |->
                                  <<states[b], ActorOut(actor, states[b])>>]
             IN  /\ training_steps' = training_steps + 1
                 /\ ret'.announced = training_steps'
                 /\ Len(samples) = minibatch_size
                 /\ \A b \in 1..Len(samples) :
                       /\ \E i \in 1..Len(experience) :
                             samples[b] = experience[i]
                       /\ ret'.target_y[b] =
                             RAdd(samples[b][3],
                                  RMul(discount_rate,
                                       CriticOut(target_critic, samples[b][4],
                                                 ActorOut(target_actor,
                                                          samples[b][4]))))
                 /\ \E o \in FitOutcomes :
                       /\ critic' = <<RAdd(critic[1], o.step[1]),
                                      RAdd(critic[2], o.step[2])>>
                       /\ bellman_error' = Append(bellman_error, o.loss)
                 /\ actor' = get_policy_updates(critic', actor, critic_xs,
                                                states)
                 /\ target_critic' =
                        Blend(target_critic_update_rate, critic',
                              target_critic)
                 /\ target_actor' =
                        Blend(target_actor_update_rate, actor',
                              target_actor)]_vars

C10_Witness ==
    /\ training_steps = 2
    /\ ret.call = "training_step"
    /\ Len(ret.samples) = 2
    /\ ret.samples[1] # ret.samples[2]
    /\ target_actor # actor
    /\ target_critic # critic

====
